---- MODULE Spec2Model ----
(***************************************************************************)
(* Model of the number-theory routines of mcsweeney90/miller-rabin:        *)
(*   src/src/prime_functions.py  prime_factors, num_divisors,              *)
(*       proper_divisors, get_primes, get_primes_without_numpy,            *)
(*       is_prime_trial, miller_rabin_classic, miller_rabin_minimal        *)
(*   src/src/miller_rabin.py     miller_rabin                              *)
(*                                                                         *)
(* A call is one behaviour fragment: idle -> (call) -> ... -> done -> idle.*)
(* The sieve, the factoriser, the divisor routines and trial division are  *)
(* operators applied by one action each; the Miller-Rabin engine runs its  *)
(* decomposition loop and its witness loops one iteration per step.        *)
(*                                                                         *)
(* Python ints are exact; the model keeps every intermediate value below   *)
(* 2^31 (MulMod) and writes integer literals above 2^31 as limb sequences. *)
(* A Python float is a fixed-point number: v counts units of 1/FloatUnit.  *)
(***************************************************************************)
EXTENDS Integers, Sequences, FiniteSets, TLC

(***************************************************************************)
(* Bounds of the checked input ranges.                                     *)
(***************************************************************************)
\* integer inputs run over -MaxNeg .. MaxN
MaxN == 1200
MaxNeg == 3
\* sieve limits run over -MaxNeg .. MaxSieve
MaxSieve == 130
\* float inputs have whole parts 0 .. MaxWhole
MaxWhole == 9
\* large inputs run over the MaxWindow integers on either side of a table row
MaxWindow == 30
\* the single-witness test runs on the odd moduli 3 .. MaxModulus
MaxModulus == 129

\* fixed-point resolution of the modelled floats: one unit is 1e-7
FloatUnit == 10 * 1000 * 1000
\* the literal 1e-6 of the float checks, in units
TolUnits == 10

VARIABLES fn, arg, kp, pc, n, d, r, witnesses, wi, x, j, result

vars == <<fn, arg, kp, pc, n, d, r, witnesses, wi, x, j, result>>

(***************************************************************************)
(* Values.                                                                 *)
(***************************************************************************)
IntArg(i) == [isFloat |-> FALSE, v |-> i]
FloatArg(u) == [isFloat |-> TRUE, v |-> u]

ErrPositive == "Number must be positive!"
ErrInteger == "Number must be an integer!"
ErrNoPrimes == "There are no primes smaller than 2!"
ErrGreaterZero == "Number must be greater than zero!"
ErrSlice == "attempt to assign sequence to extended slice of different size"

\* a returned value, tagged with its Python type, and a raised error
OkBool(b) == [err |-> "", bool |-> b]
OkInt(i) == [err |-> "", int |-> i]
OkSeq(s) == [err |-> "", seq |-> s]
OkDict(f) == [err |-> "", dict |-> f]
Raise(msg) == [err |-> msg]
\* no result yet
NoResult == [err |-> "pending"]

Abs(a) == IF a < 0 THEN -a ELSE a

\* int(n) of a float: truncation toward zero
PyInt(u) == IF u >= 0 THEN u \div FloatUnit ELSE -((-u) \div FloatUnit)

\* the float block shared by every routine of prime_functions.py:
\*   if isinstance(n, float): i = int(n)
\*       if abs(n - i) < 1e-6: n = int(n)  else: raise ValueError
FloatToInt(a) ==
    IF a.isFloat
    THEN LET i == PyInt(a.v)
         IN IF Abs(a.v - i * FloatUnit) < TolUnits
            THEN OkInt(i)
            ELSE Raise(ErrInteger)
    ELSE OkInt(a.v)

\* int(sqrt(n)) for n >= 0
RECURSIVE IsqrtFrom(_, _)
IsqrtFrom(m, k) == IF (k + 1) * (k + 1) > m THEN k ELSE IsqrtFrom(m, k + 1)
Isqrt(m) == IsqrtFrom(m, 0)

(***************************************************************************)
(* prime_factors                                                           *)
(***************************************************************************)
\* mutant: the count of a factor seen again is set to 1, not incremented
IncFactor_reset(factors, p) ==
    [q \in DOMAIN factors \cup {p} |-> IF q = p THEN 1 ELSE factors[q]]

\* factors[p] += 1, or factors[p] = 1 on KeyError
IncFactor(factors, p) ==
    IF p \in DOMAIN factors
    THEN [factors EXCEPT ![p] = @ + 1]
    ELSE [q \in DOMAIN factors \cup {p} |-> IF q = p THEN 1 ELSE factors[q]]

\* while n % p == 0: n //= p; factors[p] += 1
RECURSIVE DivideOut(_, _, _)
DivideOut(m, p, factors) ==
    IF m % p = 0
    THEN DivideOut(m \div p, p, IncFactor(factors, p))
    ELSE [n |-> m, factors |-> factors]

\* for p in range(p0, stop, 2): divide p out; stop is fixed at loop entry
RECURSIVE OddLoop(_, _, _, _)
OddLoop(m, p, stop, factors) ==
    IF p >= stop
    THEN [n |-> m, factors |-> factors]
    ELSE LET s == DivideOut(m, p, factors)
         IN OddLoop(s.n, p + 2, stop, s.factors)

\* while n > 1: one pass of the outer loop
RECURSIVE FactorLoop(_, _)
FactorLoop(m, factors) ==
    IF m <= 1
    THEN factors
    ELSE LET temp == m
             s2 == DivideOut(m, 2, factors)
             s3 == OddLoop(s2.n, 3, Isqrt(s2.n) + 1, s2.factors)
         IN IF s3.n = temp
            THEN [q \in DOMAIN s3.factors \cup {s3.n} |->
                    IF q = s3.n THEN 1 ELSE s3.factors[q]]
            ELSE FactorLoop(s3.n, s3.factors)

prime_factors(a) ==
    IF a.v < 0
    THEN Raise(ErrPositive)
    ELSE LET c == FloatToInt(a)
         IN IF c.err # "" THEN c ELSE OkDict(FactorLoop(c.int, <<>>))

(***************************************************************************)
(* num_divisors                                                            *)
(***************************************************************************)
\* mutant: prod(e for e in factors.values())
RECURSIVE ProdPlusOne_noplus(_, _)
ProdPlusOne_noplus(factors, keys) ==
    IF keys = {}
    THEN 1
    ELSE LET p == CHOOSE q \in keys : TRUE
         IN factors[p] * ProdPlusOne_noplus(factors, keys \ {p})

\* prod(e + 1 for e in factors.values())
RECURSIVE ProdPlusOne(_, _)
ProdPlusOne(factors, keys) ==
    IF keys = {}
    THEN 1
    ELSE LET p == CHOOSE q \in keys : TRUE
         IN (factors[p] + 1) * ProdPlusOne(factors, keys \ {p})

num_divisors(a) ==
    LET f == prime_factors(a)
    IN IF f.err # "" THEN f ELSE OkInt(ProdPlusOne(f.dict, DOMAIN f.dict))

(***************************************************************************)
(* proper_divisors                                                         *)
(***************************************************************************)
\* for i in range(i0, stop): if n % i == 0: append i and n // i
RECURSIVE DivisorLoop(_, _, _, _)
DivisorLoop(m, i, stop, divisors) ==
    IF i >= stop
    THEN divisors
    ELSE DivisorLoop(m, i + 1, stop,
                     IF m % i = 0
                     THEN Append(Append(divisors, i), m \div i)
                     ELSE divisors)

\* rt % 1 == 0 for rt = sqrt(n)
SqrtIsWhole(m) == Isqrt(m) * Isqrt(m) = m

proper_divisors(a) ==
    IF a.v <= 0
    THEN Raise(ErrPositive)
    ELSE LET c == FloatToInt(a)
         IN IF c.err # ""
            THEN c
            ELSE LET m == c.int
                     divisors == DivisorLoop(m, 2, Isqrt(m) + 1, <<1>>)
                 IN IF m > 1 /\ SqrtIsWhole(m)
                    THEN OkSeq(SubSeq(divisors, 1, Len(divisors) - 1))
                    ELSE OkSeq(divisors)

(***************************************************************************)
(* is_prime_trial                                                          *)
(***************************************************************************)
\* mutant: while a * a < n
RECURSIVE TrialLoop_strict(_, _, _)
TrialLoop_strict(m, a, b) ==
    IF a * a < m
    THEN IF m % a = 0 THEN FALSE ELSE TrialLoop_strict(m, a + b, 6 - b)
    ELSE TRUE

\* while a * a <= n: if n % a == 0: return False; a += b; b = 6 - b
RECURSIVE TrialLoop(_, _, _)
TrialLoop(m, a, b) ==
    IF a * a <= m
    THEN IF m % a = 0 THEN FALSE ELSE TrialLoop(m, a + b, 6 - b)
    ELSE TRUE

\* the candidates a the loop runs through when no candidate divides n
RECURSIVE trial_candidates(_, _, _)
trial_candidates(m, a, b) ==
    IF a * a <= m THEN {a} \cup trial_candidates(m, a + b, 6 - b) ELSE {}

is_prime_trial(a) ==
    IF a.v < 0
    THEN Raise(ErrPositive)
    ELSE LET c == FloatToInt(a)
         IN IF c.err # ""
            THEN c
            ELSE LET m == c.int
                 IN IF m \in {0, 1} THEN OkBool(FALSE)
                    ELSE IF m \in {2, 3} THEN OkBool(TRUE)
                    ELSE IF m % 2 = 0 \/ m % 3 = 0 THEN OkBool(FALSE)
                    ELSE OkBool(TrialLoop(m, 5, 2))

(***************************************************************************)
(* get_primes and get_primes_without_numpy                                 *)
(***************************************************************************)
\* the value of the integer literal k in the units of the argument
Lit(a, k) == IF a.isFloat THEN k * FloatUnit ELSE k

\* the guards both sieves start with; "" when the limit is accepted
SieveGuard(a) ==
    IF a.v <= Lit(a, 0)
    THEN Raise(ErrPositive)
    ELSE IF a.v < Lit(a, 3)
         THEN Raise(ErrNoPrimes)
         ELSE FloatToInt(a)

\* mutant: the slice starts one stride late, seq[start+step::step]
SliceIndices_late(start, len, step) ==
    {i \in 0..(len - 1) : i > start /\ (i - start) % step = 0}

\* the indices of seq[start::step] in a sequence of length len (0-based)
SliceIndices(start, len, step) ==
    {i \in 0..(len - 1) : i >= start /\ (i - start) % step = 0}

\* the elements of a finite set of integers in ascending order
RECURSIVE Ascending(_)
Ascending(S) ==
    IF S = {}
    THEN <<>>
    ELSE LET lo == CHOOSE s \in S : \A t \in S : s <= t
         IN <<lo>> \o Ascending(S \ {lo})

\* for p in range(p0, stop, 2): if sieve[p//2]: sieve[p*p//2::p] = False
RECURSIVE NumpySieveLoop(_, _, _, _)
NumpySieveLoop(sieve, p, stop, len) ==
    IF p >= stop
    THEN sieve
    ELSE LET cut == SliceIndices((p * p) \div 2, len, p)
             next == IF sieve[p \div 2]
                     THEN [i \in DOMAIN sieve |-> IF i \in cut THEN FALSE ELSE sieve[i]]
                     ELSE sieve
         IN NumpySieveLoop(next, p + 2, stop, len)

\* np.r_[2, 2*np.nonzero(sieve)[0][1::]+1]
NumpyCollect(sieve) ==
    LET nz == Ascending({i \in DOMAIN sieve : sieve[i]})
        rest == IF Len(nz) = 0 THEN <<>> ELSE Tail(nz)
    IN <<2>> \o [k \in 1..Len(rest) |-> 2 * rest[k] + 1]

\* the sieve proper, for an accepted integer limit
get_primes_int(limit) ==
    LET len == limit \div 2
        ones == [i \in 0..(len - 1) |-> TRUE]
    IN NumpyCollect(NumpySieveLoop(ones, 3, Isqrt(limit) + 1, len))

get_primes(a) ==
    LET g == SieveGuard(a)
    IN IF g.err # "" THEN g ELSE OkSeq(get_primes_int(g.int))

\* len([False] * k)
RepeatLen(k) == IF k < 0 THEN 0 ELSE k

\* for p in range(p0, stop, 2):
\*     if sieve[p//2]: sieve[p*p//2::p] = [False] * ((N-p*p-1)//(2*p)+1)
\* an extended-slice assignment of another length raises ValueError
RECURSIVE ListSieveLoop(_, _, _, _)
ListSieveLoop(sieve, p, stop, limit) ==
    IF p >= stop
    THEN [err |-> "", sieve |-> sieve]
    ELSE IF sieve[p \div 2]
         THEN LET cut == SliceIndices((p * p) \div 2, limit \div 2, p)
                  rhs == RepeatLen((limit - p * p - 1) \div (2 * p) + 1)
              IN IF Cardinality(cut) # rhs
                 THEN Raise(ErrSlice)
                 ELSE ListSieveLoop(
                        [i \in DOMAIN sieve |-> IF i \in cut THEN FALSE ELSE sieve[i]],
                        p + 2, stop, limit)
         ELSE ListSieveLoop(sieve, p + 2, stop, limit)

\* [2] + [2*p+1 for p in range(1, N//2) if sieve[p]]
ListCollect(sieve, limit) ==
    LET kept == Ascending({p \in 1..(limit \div 2 - 1) : sieve[p]})
    IN <<2>> \o [k \in 1..Len(kept) |-> 2 * kept[k] + 1]

get_primes_without_numpy(a) ==
    LET g == SieveGuard(a)
    IN IF g.err # ""
       THEN g
       ELSE LET limit == g.int
                trues == [i \in 0..(limit \div 2 - 1) |-> TRUE]
                s == ListSieveLoop(trues, 3, Isqrt(limit) + 1, limit)
            IN IF s.err # "" THEN s ELSE OkSeq(ListCollect(s.sieve, limit))

(***************************************************************************)
(* Exact integer arithmetic of the Miller-Rabin engine.                    *)
(***************************************************************************)
\* (a * b) % m for 0 <= a, b < m <= 2^25, by 6-bit chunks of b so that every
\* intermediate value stays below 2^31
RECURSIVE MulModLoop(_, _, _)
MulModLoop(a, b, m) ==
    IF b = 0
    THEN 0
    ELSE LET high == (MulModLoop(a, b \div 64, m) * 64) % m
             low == (a * (b % 64)) % m
         IN (low + high) % m

\* (a * b) % m
MulMod(a, b, m) == IF m <= 46340 THEN (a * b) % m ELSE MulModLoop(a, b, m)

\* pow(a, e, m) for 0 <= a < m, e >= 0
RECURSIVE PowMod(_, _, _)
PowMod(a, e, m) ==
    IF e = 0
    THEN 1 % m
    ELSE \* half is bound to the value of the recursive call
         CHOOSE v \in {IF e % 2 = 1 THEN MulMod(MulMod(half, half, m), a, m)
                                     ELSE MulMod(half, half, m) :
                        half \in {PowMod(a, e \div 2, m)}} : TRUE

\* an integer literal as its base-1000 limbs, most significant first
RECURSIVE ToLimbs(_)
ToLimbs(k) == IF k < 1000 THEN <<k>> ELSE Append(ToLimbs(k \div 1000), k % 1000)

LimbsLess(s, t) ==
    \/ Len(s) < Len(t)
    \/ /\ Len(s) = Len(t)
       /\ \E i \in 1..Len(s) : s[i] < t[i] /\ \A k \in 1..(i - 1) : s[k] = t[k]

\* n < literal
Below(k, t) == LimbsLess(ToLimbs(k), t)

\* literal % m
RECURSIVE LimbsMod(_, _)
LimbsMod(t, m) ==
    IF Len(t) = 0
    THEN 0
    ELSE LET high == LimbsMod(SubSeq(t, 1, Len(t) - 1), m)
         IN (MulMod(high, 1000 % m, m) + (t[Len(t)] % m)) % m

\* primes = [int(p) for p in get_primes(100)]
primes == get_primes(IntArg(100)).seq

\* primes[:k] as witnesses
FirstPrimes(k) == [i \in 1..k |-> ToLimbs(primes[i])]

SeqRange(s) == {s[i] : i \in 1..Len(s)}

(***************************************************************************)
(* Witness tables: the set of witness lists a call may use for n.          *)
(***************************************************************************)
\* mutant: the second ceiling is inclusive, elif n <= 1373653
classic_witnesses_inclusive(m) ==
    IF Below(m, <<2, 47>>)
        THEN {FirstPrimes(1)}
    ELSE IF Below(m, <<1, 373, 654>>)
        THEN {FirstPrimes(2)}
    ELSE IF Below(m, <<25, 326, 1>>)
        THEN {FirstPrimes(3)}
    ELSE IF Below(m, <<3, 215, 31, 751>>)
        THEN {FirstPrimes(4)}
    ELSE IF Below(m, <<2, 152, 302, 898, 747>>)
        THEN {FirstPrimes(5)}
    ELSE IF Below(m, <<3, 474, 749, 660, 383>>)
        THEN {FirstPrimes(6)}
    ELSE IF Below(m, <<341, 550, 71, 728, 321>>)
        THEN {FirstPrimes(7)}
    ELSE IF Below(m, <<3, 825, 123, 56, 546, 413, 51>>)
        THEN {FirstPrimes(9)}
    ELSE IF Below(m, <<318, 665, 857, 834, 31, 151, 167, 461>>)
        THEN {FirstPrimes(12)}
    ELSE IF Below(m, <<3, 317, 44, 64, 679, 887, 385, 961, 981>>)
        THEN {FirstPrimes(13)}
    ELSE {FirstPrimes(Len(primes))}

\* miller_rabin_classic: if n < 2047: witnesses = primes[:1] elif ...
classic_witnesses(m) ==
    IF Below(m, <<2, 47>>)
        THEN {FirstPrimes(1)}
    ELSE IF Below(m, <<1, 373, 653>>)
        THEN {FirstPrimes(2)}
    ELSE IF Below(m, <<25, 326, 1>>)
        THEN {FirstPrimes(3)}
    ELSE IF Below(m, <<3, 215, 31, 751>>)
        THEN {FirstPrimes(4)}
    ELSE IF Below(m, <<2, 152, 302, 898, 747>>)
        THEN {FirstPrimes(5)}
    ELSE IF Below(m, <<3, 474, 749, 660, 383>>)
        THEN {FirstPrimes(6)}
    ELSE IF Below(m, <<341, 550, 71, 728, 321>>)
        THEN {FirstPrimes(7)}
    ELSE IF Below(m, <<3, 825, 123, 56, 546, 413, 51>>)
        THEN {FirstPrimes(9)}
    ELSE IF Below(m, <<318, 665, 857, 834, 31, 151, 167, 461>>)
        THEN {FirstPrimes(12)}
    ELSE IF Below(m, <<3, 317, 44, 64, 679, 887, 385, 961, 981>>)
        THEN {FirstPrimes(13)}
    ELSE {FirstPrimes(Len(primes))}

\* miller_rabin_minimal: if n < 341531: witnesses = [9345883071009581737] elif ...
minimal_witnesses(m) ==
    IF Below(m, <<341, 531>>)
        THEN {<<<<9, 345, 883, 71, 9, 581, 737>>>>}
    ELSE IF Below(m, <<1, 50, 535, 501>>)
        THEN {<<<<336, 781, 6, 125>>, <<9, 639, 812, 373, 923, 155>>>>}
    ELSE IF Below(m, <<350, 269, 456, 337>>)
        THEN {<<<<4, 230, 279, 247, 111, 683, 200>>, <<14, 694, 767, 155, 120, 705, 706>>, <<16, 641, 139, 526, 367, 750, 375>>>>}
    ELSE IF Below(m, <<55, 245, 642, 489, 451>>)
        THEN {<<<<2>>, <<141, 889, 84, 524, 735>>, <<1, 199, 124, 725, 622, 454, 117>>, <<11, 96, 72, 698, 276, 303, 650>>>>}
    ELSE IF Below(m, <<7, 999, 252, 175, 582, 851>>)
        THEN {<<<<2>>, <<4, 130, 806, 1, 517>>, <<149, 795, 463, 772, 692, 60>>, <<186, 635, 894, 390, 467, 37>>, <<3, 967, 304, 179, 347, 715, 805>>>>}
    ELSE IF Below(m, <<585, 226, 5, 592, 931, 977>>)
        THEN {<<<<2>>, <<123, 635, 709, 730, 0>>, <<9, 233, 62, 284, 813, 9>>, <<43, 835, 965, 440, 333, 360>>, <<761, 179, 12, 939, 631, 437>>, <<1, 263, 739, 24, 124, 850, 375>>>>}
    ELSE IF Below(m, <<18, 446, 744, 73, 709, 551, 616>>)
        THEN {<<<<2>>, <<325>>, <<9, 375>>, <<28, 178>>, <<450, 775>>, <<9, 780, 504>>, <<1, 795, 265, 22>>>>}
    ELSE IF Below(m, <<3, 825, 123, 56, 546, 413, 51>>)
        THEN {FirstPrimes(9)}
    ELSE IF Below(m, <<318, 665, 857, 834, 31, 151, 167, 461>>)
        THEN {FirstPrimes(12)}
    ELSE IF Below(m, <<3, 317, 44, 64, 679, 887, 385, 961, 981>>)
        THEN {FirstPrimes(13)}
    ELSE {FirstPrimes(Len(primes))}

\* drop a leading zero limb
LimbsTrim(t) == IF Len(t) > 1 /\ t[1] = 0 THEN Tail(t) ELSE t

\* t - k for a small k <= t, limb by limb with borrow
RECURSIVE LimbsSubLoop(_, _)
LimbsSubLoop(t, k) ==
    LET last == t[Len(t)]
    IN IF last >= k
       THEN [t EXCEPT ![Len(t)] = last - k]
       ELSE Append(LimbsSubLoop(SubSeq(t, 1, Len(t) - 1), 1), last + 1000 - k)

LimbsSub(t, k) == LimbsTrim(LimbsSubLoop(t, k))

\* t + k for a small k, limb by limb with carry
RECURSIVE LimbsAdd(_, _)
LimbsAdd(t, k) ==
    LET sum == t[Len(t)] + k
    IN IF sum < 1000
       THEN [t EXCEPT ![Len(t)] = sum]
       ELSE IF Len(t) = 1
            THEN <<sum \div 1000, sum % 1000>>
            ELSE Append(LimbsAdd(SubSeq(t, 1, Len(t) - 1), sum \div 1000), sum % 1000)

\* t % 2 == 0
LimbsEven(t) == t[Len(t)] % 2 = 0

\* t // 2, by long division from the most significant limb
RECURSIVE LimbsHalfLoop(_, _, _)
LimbsHalfLoop(t, i, carry) ==
    IF i > Len(t)
    THEN <<>>
    ELSE LET cur == carry * 1000 + t[i]
         IN <<cur \div 2>> \o LimbsHalfLoop(t, i + 1, cur % 2)

LimbsHalf(t) == LimbsTrim(LimbsHalfLoop(t, 1, 0))

\* the outcome of the witness selection: a tabulated list, or k random
\* draws from range(start, stop)
Fixed(list) == [random |-> FALSE, list |-> list, size |-> Len(list), start |-> <<>>, stop |-> <<>>]
Random(size, start, stop) == [random |-> TRUE, list |-> <<>>, size |-> size, start |-> start, stop |-> stop]

\* mutant: the sixth ceiling is inclusive, elif n <= 4759123141
miller_rabin_table_inclusive(nl, size) ==
    IF LimbsLess(nl, <<2, 47>>)
        THEN Fixed(<<<<2>>>>)
    ELSE IF LimbsLess(nl, <<1, 373, 653>>)
        THEN Fixed(<<<<2>>, <<3>>>>)
    ELSE IF LimbsLess(nl, <<9, 80, 191>>)
        THEN Fixed(<<<<31>>, <<73>>>>)
    ELSE IF LimbsLess(nl, <<25, 326, 1>>)
        THEN Fixed(<<<<2>>, <<3>>, <<5>>>>)
    ELSE IF LimbsLess(nl, <<3, 215, 31, 751>>)
        THEN Fixed(<<<<2>>, <<3>>, <<5>>, <<7>>>>)
    ELSE IF LimbsLess(nl, <<4, 759, 123, 142>>)
        THEN Fixed(<<<<2>>, <<7>>, <<61>>>>)
    ELSE IF LimbsLess(nl, <<1, 122, 4, 669, 633>>)
        THEN Fixed(<<<<2>>, <<13>>, <<23>>, <<1, 662, 803>>>>)
    ELSE IF LimbsLess(nl, <<2, 152, 302, 898, 747>>)
        THEN Fixed(<<<<2>>, <<3>>, <<5>>, <<7>>, <<11>>>>)
    ELSE IF LimbsLess(nl, <<3, 474, 749, 660, 383>>)
        THEN Fixed(<<<<2>>, <<3>>, <<5>>, <<7>>, <<11>>, <<13>>>>)
    ELSE IF LimbsLess(nl, <<341, 550, 71, 728, 321>>)
        THEN Fixed(<<<<2>>, <<3>>, <<5>>, <<7>>, <<11>>, <<13>>, <<17>>>>)
    ELSE IF LimbsLess(nl, <<3, 825, 123, 56, 546, 413, 51>>)
        THEN Fixed(<<<<2>>, <<3>>, <<5>>, <<7>>, <<11>>, <<13>>, <<17>>, <<19>>, <<23>>>>)
    ELSE IF LimbsLess(nl, <<318, 665, 857, 834, 31, 151, 167, 461>>)
        THEN Fixed(<<<<2>>, <<3>>, <<5>>, <<7>>, <<11>>, <<13>>, <<17>>, <<19>>, <<23>>, <<29>>, <<31>>, <<37>>>>)
    ELSE IF LimbsLess(nl, <<3, 317, 44, 64, 679, 887, 385, 961, 981>>)
        THEN Fixed(<<<<2>>, <<3>>, <<5>>, <<7>>, <<11>>, <<13>>, <<17>>, <<19>>, <<23>>, <<29>>, <<31>>, <<37>>, <<41>>>>)
    ELSE Random(size, <<2>>, LimbsSub(nl, 1))

\* miller_rabin: if n < 2047: witnesses = [2] elif ...
\* else: witnesses = np.random.choice(range(2, n - 1), size=k)
\* with n written in limbs
miller_rabin_table(nl, size) ==
    IF LimbsLess(nl, <<2, 47>>)
        THEN Fixed(<<<<2>>>>)
    ELSE IF LimbsLess(nl, <<1, 373, 653>>)
        THEN Fixed(<<<<2>>, <<3>>>>)
    ELSE IF LimbsLess(nl, <<9, 80, 191>>)
        THEN Fixed(<<<<31>>, <<73>>>>)
    ELSE IF LimbsLess(nl, <<25, 326, 1>>)
        THEN Fixed(<<<<2>>, <<3>>, <<5>>>>)
    ELSE IF LimbsLess(nl, <<3, 215, 31, 751>>)
        THEN Fixed(<<<<2>>, <<3>>, <<5>>, <<7>>>>)
    ELSE IF LimbsLess(nl, <<4, 759, 123, 141>>)
        THEN Fixed(<<<<2>>, <<7>>, <<61>>>>)
    ELSE IF LimbsLess(nl, <<1, 122, 4, 669, 633>>)
        THEN Fixed(<<<<2>>, <<13>>, <<23>>, <<1, 662, 803>>>>)
    ELSE IF LimbsLess(nl, <<2, 152, 302, 898, 747>>)
        THEN Fixed(<<<<2>>, <<3>>, <<5>>, <<7>>, <<11>>>>)
    ELSE IF LimbsLess(nl, <<3, 474, 749, 660, 383>>)
        THEN Fixed(<<<<2>>, <<3>>, <<5>>, <<7>>, <<11>>, <<13>>>>)
    ELSE IF LimbsLess(nl, <<341, 550, 71, 728, 321>>)
        THEN Fixed(<<<<2>>, <<3>>, <<5>>, <<7>>, <<11>>, <<13>>, <<17>>>>)
    ELSE IF LimbsLess(nl, <<3, 825, 123, 56, 546, 413, 51>>)
        THEN Fixed(<<<<2>>, <<3>>, <<5>>, <<7>>, <<11>>, <<13>>, <<17>>, <<19>>, <<23>>>>)
    ELSE IF LimbsLess(nl, <<318, 665, 857, 834, 31, 151, 167, 461>>)
        THEN Fixed(<<<<2>>, <<3>>, <<5>>, <<7>>, <<11>>, <<13>>, <<17>>, <<19>>, <<23>>, <<29>>, <<31>>, <<37>>>>)
    ELSE IF LimbsLess(nl, <<3, 317, 44, 64, 679, 887, 385, 961, 981>>)
        THEN Fixed(<<<<2>>, <<3>>, <<5>>, <<7>>, <<11>>, <<13>>, <<17>>, <<19>>, <<23>>, <<29>>, <<31>>, <<37>>, <<41>>>>)
    ELSE Random(size, <<2>>, LimbsSub(nl, 1))

\* the witness lists miller_rabin may use for the integer n
miller_rabin_witnesses(m, size) ==
    LET row == miller_rabin_table(ToLimbs(m), size)
    IN IF row.random
       THEN {[i \in 1..size |-> ToLimbs(c[i])] : c \in [1..size -> 2..(m - 2)]}
       ELSE {row.list}

(***************************************************************************)
(* Entry of the three Miller-Rabin routines: validation, the 0/1 guard and *)
(* the small-prime fast path.  A call either returns at once or goes on to *)
(* the decomposition with n.                                               *)
(***************************************************************************)
Done(res) == [done |-> TRUE, res |-> res, n |-> 0]
Go(m) == [done |-> FALSE, res |-> NoResult, n |-> m]

\* known_primes=None, or a set given by the caller
None == [none |-> TRUE, primes |-> {}]
Given(S) == [none |-> FALSE, primes |-> S]

\* if known_primes is None: known_primes = {2, 3, 5, 7, 11, 13, 17, 19}
known_primes(known) ==
    IF known.none THEN {2, 3, 5, 7, 11, 13, 17, 19} ELSE known.primes

\* k=8
k_default == 8

\* mutant: the float block runs before the sign check
miller_rabin_classic_entry_floatfirst(a) ==
    LET c == FloatToInt(a)
    IN IF c.err # ""
       THEN Done(c)
       ELSE IF a.v < 0
            THEN Done(Raise(ErrPositive))
            ELSE LET m == c.int
                 IN IF m \in {0, 1} THEN Done(OkBool(FALSE))
                    ELSE IF m \in SeqRange(primes) THEN Done(OkBool(TRUE))
                    ELSE IF \E p \in SeqRange(primes) : m % p = 0 THEN Done(OkBool(FALSE))
                    ELSE Go(m)

miller_rabin_classic_entry(a) ==
    IF a.v < 0
    THEN Done(Raise(ErrPositive))
    ELSE LET c == FloatToInt(a)
         IN IF c.err # ""
            THEN Done(c)
            ELSE LET m == c.int
                 IN IF m \in {0, 1} THEN Done(OkBool(FALSE))
                    ELSE IF m \in SeqRange(primes) THEN Done(OkBool(TRUE))
                    ELSE IF \E p \in SeqRange(primes) : m % p = 0 THEN Done(OkBool(FALSE))
                    ELSE Go(m)

miller_rabin_minimal_entry(a) ==
    IF a.v < 0
    THEN Done(Raise(ErrPositive))
    ELSE LET c == FloatToInt(a)
         IN IF c.err # ""
            THEN Done(c)
            ELSE LET m == c.int
                 IN IF m \in {0, 1} THEN Done(OkBool(FALSE))
                    ELSE IF m \in SeqRange(primes) THEN Done(OkBool(TRUE))
                    ELSE IF \E p \in SeqRange(primes) : m % p = 0 THEN Done(OkBool(FALSE))
                    ELSE Go(m)

\* mutant: the membership test  if n in known_primes: return True  is missing
miller_rabin_entry_nomember(a, known) ==
    IF a.isFloat
    THEN Done(Raise(ErrInteger))
    ELSE IF ~(a.v > 0)
         THEN Done(Raise(ErrGreaterZero))
         ELSE LET m == a.v
              IN IF m = 1 THEN Done(OkBool(FALSE))
                 ELSE IF \E p \in known_primes(known) : m % p = 0 THEN Done(OkBool(FALSE))
                 ELSE Go(m)

miller_rabin_entry(a, known) ==
    IF a.isFloat
    THEN Done(Raise(ErrInteger))
    ELSE IF ~(a.v > 0)
         THEN Done(Raise(ErrGreaterZero))
         ELSE LET m == a.v
              IN IF m = 1 THEN Done(OkBool(FALSE))
                 ELSE IF m \in known_primes(known) THEN Done(OkBool(TRUE))
                 ELSE IF \E p \in known_primes(known) : m % p = 0 THEN Done(OkBool(FALSE))
                 ELSE Go(m)

\* the witness lists the routine fn may select for n
select_witnesses(f, m) ==
    IF f = "miller_rabin_classic" THEN classic_witnesses(m)
    ELSE IF f = "miller_rabin_minimal" THEN minimal_witnesses(m)
    ELSE miller_rabin_witnesses(m, k_default)

\* maybe_prime: x = pow(a, d, n)
first_power(a, dv, m) == PowMod(LimbsMod(a, m), dv, m)

\* mutant: if x == 1: return True
passes_at_once_one(xv, m) == xv = 1

\* maybe_prime: if x in {1, n - 1}: return True
passes_at_once(xv, m) == xv \in {1, m - 1}

\* mutant: for _ in range(r)
squarings_whole(rv) == rv

\* maybe_prime: for _ in range(r - 1)
squarings(rv) == rv - 1

(***************************************************************************)
(* Inputs.                                                                 *)
(***************************************************************************)
\* integers above MaxN that sit on or next to a row of a witness table, or
\* are divisible by a tabulated witness
SpecialInputs ==
    {2047, 10403, 55687, 98207, 341531, 1373653, 1373677, 9080191, 25326001}

\* fractional parts, in units, on both sides of the tolerance
FloatFracs ==
    {0, 1, TolUnits - 1, TolUnits, TolUnits + 1, FloatUnit \div 2,
     FloatUnit - TolUnits - 1, FloatUnit - TolUnits, FloatUnit - TolUnits + 1,
     FloatUnit - 1}

FloatInputs ==
    {FloatArg(s * (w * FloatUnit + f)) : s \in {1, -1}, w \in 0..MaxWhole, f \in FloatFracs}

Inputs == {IntArg(i) : i \in (-MaxNeg)..MaxN} \cup FloatInputs

EngineInputs == Inputs \cup {IntArg(i) : i \in SpecialInputs}

SieveInputs == {IntArg(i) : i \in (-MaxNeg)..MaxSieve} \cup FloatInputs

KnownPrimesOptions == {None, Given({}), Given({3, 5})}

(***************************************************************************)
(* The state machine.                                                      *)
(***************************************************************************)
Init ==
    /\ fn = "none"
    /\ arg = IntArg(0)
    /\ kp = None
    /\ pc = "idle"
    /\ n = 0
    /\ d = 0
    /\ r = 0
    /\ witnesses = <<>>
    /\ wi = 0
    /\ x = 0
    /\ j = 0
    /\ result = NoResult

\* a routine without a stepwise loop: called and returned in one step
CallPure(name, a, res) ==
    /\ pc = "idle"
    /\ fn' = name
    /\ arg' = a
    /\ result' = res
    /\ pc' = "done"
    /\ UNCHANGED <<kp, n, d, r, witnesses, wi, x, j>>

Call_prime_factors == \E a \in Inputs : CallPure("prime_factors", a, prime_factors(a))

Call_num_divisors == \E a \in Inputs : CallPure("num_divisors", a, num_divisors(a))

Call_proper_divisors == \E a \in Inputs : CallPure("proper_divisors", a, proper_divisors(a))

Call_get_primes == \E a \in SieveInputs : CallPure("get_primes", a, get_primes(a))

Call_get_primes_without_numpy ==
    \E a \in SieveInputs :
        CallPure("get_primes_without_numpy", a, get_primes_without_numpy(a))

Call_is_prime_trial == \E a \in Inputs : CallPure("is_prime_trial", a, is_prime_trial(a))

\* entry of a Miller-Rabin routine, up to  d, r = n - 1, 1
Enter(name, a, known, e) ==
    /\ pc = "idle"
    /\ fn' = name
    /\ arg' = a
    /\ kp' = known
    /\ n' = e.n
    /\ IF e.done
       THEN /\ pc' = "done"
            /\ result' = e.res
            /\ UNCHANGED <<d, r>>
       ELSE /\ pc' = "decompose"
            /\ result' = NoResult
            /\ d' = e.n - 1
            /\ r' = 1
    /\ UNCHANGED <<witnesses, wi, x, j>>

Call_miller_rabin_classic ==
    \E a \in EngineInputs :
        Enter("miller_rabin_classic", a, None, miller_rabin_classic_entry(a))

Call_miller_rabin_minimal ==
    \E a \in EngineInputs :
        Enter("miller_rabin_minimal", a, None, miller_rabin_minimal_entry(a))

Call_miller_rabin ==
    \E a \in EngineInputs, known \in KnownPrimesOptions :
        Enter("miller_rabin", a, known, miller_rabin_entry(a, known))

\* while d % 2 == 0: d //= 2; r += 1
DecomposeStep ==
    /\ pc = "decompose"
    /\ d % 2 = 0
    /\ d' = d \div 2
    /\ r' = r + 1
    /\ UNCHANGED <<fn, arg, kp, pc, n, witnesses, wi, x, j, result>>

\* the loop exits; the witnesses are chosen by the magnitude of n
SelectWitnesses ==
    /\ pc = "decompose"
    /\ d % 2 # 0
    /\ witnesses' \in select_witnesses(fn, n)
    /\ wi' = 1
    /\ pc' = "witness"
    /\ UNCHANGED <<fn, arg, kp, n, d, r, x, j, result>>

\* all(...) calls maybe_prime(a) for the next witness: the first power
WitnessBegin ==
    /\ pc = "witness"
    /\ wi <= Len(witnesses)
    /\ LET x0 == first_power(witnesses[wi], d, n)
       IN /\ x' = x0
          /\ j' = 0
          /\ IF passes_at_once(x0, n)
             THEN wi' = wi + 1 /\ pc' = "witness"
             ELSE wi' = wi /\ pc' = "square"
    /\ UNCHANGED <<fn, arg, kp, n, d, r, witnesses, result>>

\* one iteration of  for _ in range(r - 1): x = (x * x) % n
WitnessSquare ==
    /\ pc = "square"
    /\ j < squarings(r)
    /\ LET x1 == MulMod(x, x, n)
       IN /\ x' = x1
          /\ j' = j + 1
          /\ IF x1 = n - 1
             THEN wi' = wi + 1 /\ pc' = "witness"
             ELSE wi' = wi /\ pc' = "square"
    /\ UNCHANGED <<fn, arg, kp, n, d, r, witnesses, result>>

\* the squaring loop is exhausted: maybe_prime returns False, and so does all()
WitnessFail ==
    /\ pc = "square"
    /\ j >= squarings(r)
    /\ result' = OkBool(FALSE)
    /\ pc' = "done"
    /\ UNCHANGED <<fn, arg, kp, n, d, r, witnesses, wi, x, j>>

\* every witness passed: all() returns True
AllPass ==
    /\ pc = "witness"
    /\ wi > Len(witnesses)
    /\ result' = OkBool(TRUE)
    /\ pc' = "done"
    /\ UNCHANGED <<fn, arg, kp, n, d, r, witnesses, wi, x, j>>

\* the caller takes the result; the next call starts from the initial state
Return ==
    /\ pc = "done"
    /\ fn' = "none"
    /\ arg' = IntArg(0)
    /\ kp' = None
    /\ pc' = "idle"
    /\ n' = 0
    /\ d' = 0
    /\ r' = 0
    /\ witnesses' = <<>>
    /\ wi' = 0
    /\ x' = 0
    /\ j' = 0
    /\ result' = NoResult

Next ==
    \/ Call_prime_factors
    \/ Call_num_divisors
    \/ Call_proper_divisors
    \/ Call_get_primes
    \/ Call_get_primes_without_numpy
    \/ Call_is_prime_trial
    \/ Call_miller_rabin_classic
    \/ Call_miller_rabin_minimal
    \/ Call_miller_rabin
    \/ DecomposeStep
    \/ SelectWitnesses
    \/ WitnessBegin
    \/ WitnessSquare
    \/ WitnessFail
    \/ AllPass
    \/ Return

Spec == Init /\ [][Next]_vars

\* a step of a Miller-Rabin call in progress
EngineStep ==
    \/ DecomposeStep
    \/ SelectWitnesses
    \/ WitnessBegin
    \/ WitnessSquare
    \/ WitnessFail
    \/ AllPass

\* one call of a Miller-Rabin routine, from the call to its return
EngineNext ==
    \/ Call_miller_rabin_classic
    \/ Call_miller_rabin_minimal
    \/ Call_miller_rabin
    \/ DecomposeStep
    \/ SelectWitnesses
    \/ WitnessBegin
    \/ WitnessSquare
    \/ WitnessFail
    \/ AllPass

\* a call that has begun keeps running: the interpreter executes the next
\* statement of the routine whenever there is one
FairSpec == Init /\ [][EngineNext]_vars /\ WF_vars(EngineStep)

(***************************************************************************)
(* miller_rabin on integers beyond the machine range, written in limbs:    *)
(* the call from  d, r = n - 1, 1  to the selection of its witnesses.      *)
(***************************************************************************)
\* the ceilings of the rows of miller_rabin
Thresholds ==
    {<<2, 47>>, <<1, 373, 653>>, <<9, 80, 191>>, <<25, 326, 1>>,
     <<3, 215, 31, 751>>, <<4, 759, 123, 141>>, <<1, 122, 4, 669, 633>>,
     <<2, 152, 302, 898, 747>>, <<3, 474, 749, 660, 383>>,
     <<341, 550, 71, 728, 321>>, <<3, 825, 123, 56, 546, 413, 51>>,
     <<318, 665, 857, 834, 31, 151, 167, 461>>,
     <<3, 317, 44, 64, 679, 887, 385, 961, 981>>}

\* the integers within MaxWindow of a ceiling
LargeInputs ==
    {LimbsAdd(LimbsSub(c, MaxWindow), i) : c \in Thresholds, i \in 0..(2 * MaxWindow)}

\* n is above every known prime and  any((n % p) == 0 for p in known_primes)
\* is False, with the default known_primes
PassesFastPath(nl) ==
    /\ \A p \in known_primes(None) : LimbsLess(ToLimbs(p), nl)
    /\ \A p \in known_primes(None) : LimbsMod(nl, p) # 0

\* miller_rabin(n) has reached  d, r = n - 1, 1
TableInit ==
    \E nl \in LargeInputs :
        /\ PassesFastPath(nl)
        /\ fn = "miller_rabin"
        /\ arg = [isFloat |-> FALSE, v |-> nl]
        /\ kp = None
        /\ pc = "decompose"
        /\ n = nl
        /\ d = LimbsSub(nl, 1)
        /\ r = 1
        /\ witnesses = Fixed(<<>>)
        /\ wi = 0
        /\ x = 0
        /\ j = 0
        /\ result = NoResult

\* while d % 2 == 0: d //= 2; r += 1
TableDecomposeStep ==
    /\ pc = "decompose"
    /\ LimbsEven(d)
    /\ d' = LimbsHalf(d)
    /\ r' = r + 1
    /\ UNCHANGED <<fn, arg, kp, pc, n, witnesses, wi, x, j, result>>

\* the loop exits; the row of the table is chosen by the magnitude of n
TableSelect ==
    /\ pc = "decompose"
    /\ ~LimbsEven(d)
    /\ witnesses' = miller_rabin_table(n, k_default)
    /\ pc' = "selected"
    /\ UNCHANGED <<fn, arg, kp, n, d, r, wi, x, j, result>>

TableNext == TableDecomposeStep \/ TableSelect

TableSpec == TableInit /\ [][TableNext]_vars

(***************************************************************************)
(* maybe_prime on its own: the single-witness test of an odd n, after the  *)
(* decomposition of n - 1, applied to one base a.                          *)
(***************************************************************************)
\* moduli above MaxModulus: a Fermat prime and a Carmichael number
SpecialModuli == {257, 561}

Moduli == {m \in 3..MaxModulus : m % 2 = 1} \cup SpecialModuli

\* the routine has reached  d, r = n - 1, 1  with an odd n
BaseInit ==
    \E m \in Moduli :
        /\ fn = "maybe_prime"
        /\ arg = IntArg(m)
        /\ kp = None
        /\ pc = "decompose"
        /\ n = m
        /\ d = m - 1
        /\ r = 1
        /\ witnesses = <<>>
        /\ wi = 0
        /\ x = 0
        /\ j = 0
        /\ result = NoResult

\* the loop exits; maybe_prime is applied to one base a, 1 <= a <= n - 1
ChooseBase ==
    /\ pc = "decompose"
    /\ d % 2 # 0
    /\ \E a \in 1..(n - 1) : witnesses' = <<ToLimbs(a)>>
    /\ wi' = 1
    /\ pc' = "witness"
    /\ UNCHANGED <<fn, arg, kp, n, d, r, x, j, result>>

BaseNext ==
    \/ DecomposeStep
    \/ ChooseBase
    \/ WitnessBegin
    \/ WitnessSquare
    \/ WitnessFail
    \/ AllPass

BaseSpec == BaseInit /\ [][BaseNext]_vars

(***************************************************************************)
(* Reference notions the claims are stated with.                           *)
(***************************************************************************)
IsPrime(k) == k >= 2 /\ \A q \in 2..(k - 1) : k % q # 0

Divisors(k) == {q \in 1..k : k % q = 0}

PrimesBelow(limit) == {q \in 2..(limit - 1) : IsPrime(q)}

StrictlyAscending(s) == \A i \in 1..(Len(s) - 1) : s[i] < s[i + 1]

\* a call of routine f on the integer i has returned
Returned(f, i) == pc = "done" /\ fn = f /\ ~arg.isFloat /\ arg.v = i

\* a call of routine f on some integer has returned
ReturnedInt(f) == pc = "done" /\ fn = f /\ ~arg.isFloat

\* the call returned the boolean b, the integer i; no error
ReturnsBool(b) == result = OkBool(b)

ReturnsInt(i) == result = OkInt(i)

(***************************************************************************)
(* C1: for every integer n >= 0 of the checked range miller_rabin_classic  *)
(* returns True exactly when n is prime (False for 0, 1 and every          *)
(* composite, the strong pseudoprimes on a table threshold included).      *)
(***************************************************************************)
C1_ClassicDecidesPrimality ==
    (ReturnedInt("miller_rabin_classic") /\ arg.v >= 0)
        => ReturnsBool(IsPrime(arg.v))

\* 1373653, the strong pseudoprime to bases 2 and 3 that is the ceiling of
\* the second row, was refuted by the third witness of the next row
C1_Witness ==
    /\ Returned("miller_rabin_classic", 1373653)
    /\ Len(witnesses) = 3
    /\ wi = 3
    /\ ReturnsBool(FALSE)

(***************************************************************************)
(* C2: for every integer n >= 1 of the checked range miller_rabin, called  *)
(* with the default k and the default known_primes, returns True exactly   *)
(* when n is prime.                                                        *)
(***************************************************************************)
C2_MillerRabinDecidesPrimality ==
    (ReturnedInt("miller_rabin") /\ kp = None /\ arg.v >= 1)
        => ReturnsBool(IsPrime(arg.v))

\* 233 * 239 passed the fast path and was refuted by a witness of its row
C2_Witness ==
    /\ Returned("miller_rabin", 55687)
    /\ kp = None
    /\ witnesses = <<<<2>>, <<3>>>>
    /\ ReturnsBool(FALSE)

(***************************************************************************)
(* C3: for every integer n >= 0 of the checked range miller_rabin_minimal  *)
(* returns True if n is prime and False otherwise; no prime above 100 is   *)
(* reported composite because a fixed witness of its row is 0 modulo n.    *)
(***************************************************************************)
C3_MinimalDecidesPrimality ==
    (ReturnedInt("miller_rabin_minimal") /\ arg.v >= 0)
        => ReturnsBool(IsPrime(arg.v))

(***************************************************************************)
(* C4: for every integer N >= 3 get_primes(N) and                          *)
(* get_primes_without_numpy(N) return exactly the primes below N,          *)
(* ascending and without duplicates, 2 first; 25 primes below 100,         *)
(* [2,3,5,7] below 10; the slice assignment never fails.                   *)
(***************************************************************************)
C4_SievesReturnPrimesBelow ==
    /\ \A f \in {"get_primes", "get_primes_without_numpy"} :
         (ReturnedInt(f) /\ arg.v >= 3)
             => /\ result.err = ""
                /\ StrictlyAscending(result.seq)
                /\ SeqRange(result.seq) = PrimesBelow(arg.v)
                /\ result.seq[1] = 2
                /\ arg.v = 100 => Len(result.seq) = 25
                /\ arg.v = 10 => result.seq = <<2, 3, 5, 7>>

\* the list sieve ran its slice assignments up to the limit 100
C4_Witness ==
    /\ Returned("get_primes_without_numpy", 100)
    /\ result.err = ""
    /\ Len(result.seq) = 25
    /\ result.seq[25] = 97

(***************************************************************************)
(* C5: for every negative input each of prime_factors, proper_divisors,    *)
(* is_prime_trial, miller_rabin_classic and miller_rabin_minimal fails     *)
(* with "Number must be positive!" before the float check, the fast path,  *)
(* the decomposition and any other arithmetic.                             *)
(***************************************************************************)
C5_NegativeInputRejected ==
    \A f \in {"prime_factors", "proper_divisors", "is_prime_trial",
              "miller_rabin_classic", "miller_rabin_minimal"} :
        (fn = f /\ arg.v < 0)
            => /\ pc = "done"
               /\ result = Raise(ErrPositive)
               /\ d = 0 /\ r = 0 /\ witnesses = <<>> /\ wi = 0

\* -0.5 is negative and no integer: the sign is checked first
C5_Witness ==
    /\ pc = "done"
    /\ fn = "miller_rabin_classic"
    /\ arg = FloatArg(-(FloatUnit \div 2))
    /\ result = Raise(ErrPositive)

(***************************************************************************)
(* C6: a non-negative float x given to miller_rabin_classic,               *)
(* prime_factors, proper_divisors or is_prime_trial: if x is less than     *)
(* 1e-6 away from the nearest integer m, above or below it, the call       *)
(* returns what it returns for m; otherwise it fails with "Number must be  *)
(* an integer!".                                                           *)
(***************************************************************************)
\* the integer nearest to the float of u units, and the distance to it
Nearest(u) == (u + FloatUnit \div 2) \div FloatUnit
Distance(u) == Abs(u - Nearest(u) * FloatUnit)

ResultFor(f, a) ==
    IF f = "prime_factors" THEN prime_factors(a)
    ELSE IF f = "proper_divisors" THEN proper_divisors(a)
    ELSE is_prime_trial(a)

C6_FloatNearIntegerAccepted ==
    /\ \A f \in {"prime_factors", "proper_divisors", "is_prime_trial"} :
         (pc = "done" /\ fn = f /\ arg.isFloat /\ arg.v >= 0)
             => IF Distance(arg.v) < TolUnits
                THEN result = ResultFor(f, IntArg(Nearest(arg.v)))
                ELSE result = Raise(ErrInteger)
    /\ (fn = "miller_rabin_classic" /\ arg.isFloat /\ arg.v >= 0)
         => IF Distance(arg.v) < TolUnits
            THEN pc = "done" => ReturnsBool(IsPrime(Nearest(arg.v)))
            ELSE pc = "done" /\ result = Raise(ErrInteger)

(***************************************************************************)
(* C7: for every integer n >= 2 of the checked range prime_factors(n) is a *)
(* mapping with prime keys, multiplicities >= 1 and product of             *)
(* key^multiplicity equal to n; for 0 and 1 it is the empty mapping.       *)
(***************************************************************************)
RECURSIVE Power(_, _)
Power(b, e) == IF e = 0 THEN 1 ELSE b * Power(b, e - 1)

RECURSIVE FactorProduct(_, _)
FactorProduct(f, keys) ==
    IF keys = {}
    THEN 1
    ELSE LET p == CHOOSE q \in keys : TRUE
         IN Power(p, f[p]) * FactorProduct(f, keys \ {p})

C7_PrimeFactorsFactorise ==
    (ReturnedInt("prime_factors") /\ arg.v >= 0)
        => /\ result.err = ""
           /\ IF arg.v \in {0, 1}
              THEN DOMAIN result.dict = {}
              ELSE /\ \A p \in DOMAIN result.dict :
                        IsPrime(p) /\ result.dict[p] >= 1
                   /\ FactorProduct(result.dict, DOMAIN result.dict) = arg.v

\* 360 = 2^3 * 3^2 * 5: repeated factors, several primes, a last prime left over
C7_Witness ==
    /\ Returned("prime_factors", 360)
    /\ result.err = ""
    /\ DOMAIN result.dict = {2, 3, 5}
    /\ result.dict[2] = 3 /\ result.dict[3] = 2 /\ result.dict[5] = 1

(***************************************************************************)
(* C8: for every integer n >= 1 of the checked range num_divisors(n) is    *)
(* the number of positive integers dividing n; for n = 0 it is 1.          *)
(***************************************************************************)
C8_NumDivisorsCounts ==
    (ReturnedInt("num_divisors") /\ arg.v >= 0)
        => ReturnsInt(IF arg.v = 0 THEN 1 ELSE Cardinality(Divisors(arg.v)))

\* 12 = 2^2 * 3 has (2 + 1) * (1 + 1) = 6 divisors
C8_Witness == Returned("num_divisors", 12) /\ ReturnsInt(6)

(***************************************************************************)
(* C9: for every integer n >= 1 of the checked range proper_divisors(n)    *)
(* contains each positive divisor of n smaller than n exactly once and     *)
(* nothing else.                                                           *)
(***************************************************************************)
C9_ProperDivisorsExact ==
    (ReturnedInt("proper_divisors") /\ arg.v >= 1)
        => /\ result.err = ""
           /\ SeqRange(result.seq) = Divisors(arg.v) \ {arg.v}
           /\ Len(result.seq) = Cardinality(Divisors(arg.v) \ {arg.v})

(***************************************************************************)
(* C10: for every integer n >= 0 of the checked range is_prime_trial(n) is *)
(* True if n is prime and False otherwise, and the candidates 5, 7, 11,    *)
(* 13, ... cover every prime a >= 5 with a * a <= n.                       *)
(***************************************************************************)
C10_TrialDivisionDecidesPrimality ==
    (ReturnedInt("is_prime_trial") /\ arg.v >= 0)
        => /\ ReturnsBool(IsPrime(arg.v))
           /\ \A q \in 5..arg.v :
                (IsPrime(q) /\ q * q <= arg.v) => q \in trial_candidates(arg.v, 5, 2)

\* 529 = 23 * 23: the last candidate, with a * a = n, is the only divisor
C10_Witness ==
    /\ Returned("is_prime_trial", 529)
    /\ 23 \in trial_candidates(529, 5, 2)
    /\ ReturnsBool(FALSE)

(***************************************************************************)
(* C11: every call of miller_rabin, miller_rabin_classic or                *)
(* miller_rabin_minimal on a valid integer terminates with a boolean.      *)
(* n = 1 (and n = 0 where it is accepted) returns False without entering   *)
(* the decomposition loop, so the loop never runs with d = 0; for n >= 2   *)
(* the loop halts with d odd; a single-witness loop makes at most r - 1    *)
(* squarings; and a call in progress leads to its return.                  *)
(***************************************************************************)
EngineRoutines == {"miller_rabin", "miller_rabin_classic", "miller_rabin_minimal"}

\* the argument is an integer the routine fn accepts
ValidInteger ==
    /\ fn \in EngineRoutines
    /\ ~arg.isFloat
    /\ arg.v >= (IF fn = "miller_rabin" THEN 1 ELSE 0)

C11_Safety ==
    /\ (ValidInteger /\ arg.v \in {0, 1})
           => (pc = "done" /\ ReturnsBool(FALSE) /\ r = 0)
    /\ pc = "decompose" => (n >= 2 /\ d >= 1)
    /\ pc \in {"witness", "square"} => (n >= 2 /\ d % 2 = 1 /\ j <= r - 1)
    /\ (ValidInteger /\ pc = "done") => (ReturnsBool(TRUE) \/ ReturnsBool(FALSE))

C11_EngineTerminates ==
    /\ []C11_Safety
    /\ (pc \in {"decompose", "witness", "square"}) ~> (pc = "done")

\* 1373653 - 1 = 343413 * 4: the decomposition loop ran twice, and the last
\* witness used all of its r - 1 = 2 squarings before the call returned False
C11_Witness ==
    /\ Returned("miller_rabin_classic", 1373653)
    /\ d = 343413
    /\ r = 3
    /\ j = r - 1
    /\ ReturnsBool(FALSE)

(***************************************************************************)
(* C12: when the decomposition loop of a Miller-Rabin routine exits, the   *)
(* values satisfy n - 1 = d * 2^r with d odd and r >= 1.                   *)
(***************************************************************************)
C12_DecompositionIdentity ==
    (fn \in EngineRoutines /\ pc \in {"witness", "square"})
        => (n - 1 = d * Power(2, r) /\ d % 2 = 1 /\ r >= 1)

(***************************************************************************)
(* C13: the witnesses miller_rabin selects for n are those of the first    *)
(* row of the specified table whose ceiling is strictly greater than n, so *)
(* an n equal to a ceiling takes the next row; at or above the last        *)
(* ceiling, 3317044064679887385961981, they are k bases drawn from         *)
(* [2, n - 2].                                                             *)
(***************************************************************************)
SpecTable ==
    << [ceiling |-> <<2, 47>>, bases |-> <<2>>],
       [ceiling |-> <<1, 373, 653>>, bases |-> <<2, 3>>],
       [ceiling |-> <<9, 80, 191>>, bases |-> <<31, 73>>],
       [ceiling |-> <<25, 326, 1>>, bases |-> <<2, 3, 5>>],
       [ceiling |-> <<3, 215, 31, 751>>, bases |-> <<2, 3, 5, 7>>],
       [ceiling |-> <<4, 759, 123, 141>>, bases |-> <<2, 7, 61>>],
       [ceiling |-> <<1, 122, 4, 669, 633>>, bases |-> <<2, 13, 23, 1662803>>],
       [ceiling |-> <<2, 152, 302, 898, 747>>, bases |-> <<2, 3, 5, 7, 11>>],
       [ceiling |-> <<3, 474, 749, 660, 383>>, bases |-> <<2, 3, 5, 7, 11, 13>>],
       [ceiling |-> <<341, 550, 71, 728, 321>>, bases |-> <<2, 3, 5, 7, 11, 13, 17>>],
       [ceiling |-> <<3, 825, 123, 56, 546, 413, 51>>,
        bases |-> <<2, 3, 5, 7, 11, 13, 17, 19, 23>>],
       [ceiling |-> <<318, 665, 857, 834, 31, 151, 167, 461>>,
        bases |-> <<2, 3, 5, 7, 11, 13, 17, 19, 23, 29, 31, 37>>],
       [ceiling |-> <<3, 317, 44, 64, 679, 887, 385, 961, 981>>,
        bases |-> <<2, 3, 5, 7, 11, 13, 17, 19, 23, 29, 31, 37, 41>>] >>

\* the rows whose ceiling is strictly greater than nl
RowsAbove(nl) == {i \in 1..Len(SpecTable) : LimbsLess(nl, SpecTable[i].ceiling)}

FirstRowAbove(nl) == CHOOSE i \in RowsAbove(nl) : \A k \in RowsAbove(nl) : i <= k

C13_WitnessTableSelection ==
    (fn = "miller_rabin" /\ pc = "selected")
        => IF RowsAbove(n) # {}
           THEN LET bases == SpecTable[FirstRowAbove(n)].bases
                IN /\ ~witnesses.random
                   /\ witnesses.list = [i \in 1..Len(bases) |-> ToLimbs(bases[i])]
           ELSE /\ witnesses.random
                /\ witnesses.size = k_default
                /\ witnesses.start = <<2>>
                /\ LimbsSub(witnesses.stop, 1) = LimbsSub(n, 2)

\* 4759123141, the ceiling of the row {2, 7, 61}, took the next row
C13_Witness ==
    /\ fn = "miller_rabin"
    /\ pc = "selected"
    /\ n = <<4, 759, 123, 141>>
    /\ witnesses.list = <<<<2>>, <<13>>, <<23>>, <<1, 662, 803>>>>

(***************************************************************************)
(* C14: for every odd n >= 3 and every base a, 1 <= a <= n - 1, the        *)
(* implemented maybe_prime(a), which makes up to s squarings where         *)
(* n - 1 = d * 2^s, answers as the textbook strong-probable-prime test     *)
(* does: a^d = 1 mod n, or a^(d * 2^i) = n - 1 mod n for some 0 <= i < s.  *)
(* The extra squaring never lets a failing base pass, and for a prime n    *)
(* every base passes.                                                      *)
(***************************************************************************)
\* the exponent of 2 in k
RECURSIVE TwoAdicity(_)
TwoAdicity(k) == IF k % 2 = 1 THEN 0 ELSE 1 + TwoAdicity(k \div 2)

StrongProbablePrime(a, m) ==
    LET s == TwoAdicity(m - 1)
        odd == (m - 1) \div Power(2, s)
    IN \/ PowMod(a, odd, m) = 1
       \/ \E i \in 0..(s - 1) : PowMod(a, odd * Power(2, i), m) = m - 1

C14_MaybePrimeIsStrongTest ==
    (fn = "maybe_prime" /\ pc = "done")
        => LET a == LimbsMod(witnesses[1], n)
           IN /\ ReturnsBool(StrongProbablePrime(a, n))
              /\ IsPrime(n) => ReturnsBool(TRUE)

\* 561 - 1 = 35 * 2^4: base 2 went through all four squarings, the last one
\* beyond the textbook test, and failed
C14_Witness ==
    /\ fn = "maybe_prime"
    /\ pc = "done"
    /\ n = 561
    /\ witnesses = <<<<2>>>>
    /\ r = 5
    /\ j = 4
    /\ ReturnsBool(FALSE)

(***************************************************************************)
(* C15: known_primes is only a fast path of miller_rabin: for every        *)
(* integer n >= 1 of the checked range and every set known_primes of       *)
(* primes, the empty set and sets without 2 included, the call returns     *)
(* True exactly when n is prime, as it does with the default set.          *)
(***************************************************************************)
C15_KnownPrimesOnlyFastPath ==
    (/\ ReturnedInt("miller_rabin")
     /\ arg.v >= 1
     /\ \A p \in known_primes(kp) : IsPrime(p))
        => ReturnsBool(IsPrime(arg.v))

====
